---- MODULE Spec2Model ----
(***************************************************************************)
(* Backfill cache of the earthquake dashboard (src/fetch_data.py) and the  *)
(* dashboard callbacks that drive it (src/app.py).                         *)
(*                                                                         *)
(* Time is counted in ticks.  A naive local datetime is the number of      *)
(* ticks since local midnight of day 0; an epoch instant (the unit of      *)
(* properties.time) is the number of ticks since UTC midnight of day 0.    *)
(***************************************************************************)
EXTENDS Integers, Sequences, FiniteSets, Bags, TLC

\* ---------------------------------------------------------------- bounds
MaxDay == 2            \* calendar days 0..MaxDay can be named by a caller
MaxHeld == 2           \* events the upstream catalogue holds at most
MaxBatch == 2          \* length of a batch handed directly to store_data

\* ------------------------------------------------------ program constants
DayLen == 4            \* timedelta(days=1), in ticks
SecLen == 2            \* one second, in ticks
TodNoon == 2           \* a time-of-day component a date string may carry
TzShift == 2           \* a non-zero offset of local time from UTC

Days == 0..MaxDay
Procs == {1, 2}        \* the two dashboard callbacks
NoDate == -1000        \* a process variable that holds no datetime
None == [ok |-> FALSE, val |-> <<>>]      \* Python's None
Some(v) == [ok |-> TRUE, val |-> v]
ValueError == [ok |-> FALSE, val |-> 0]   \* parse_date raised

\* Date strings a caller can pass: '%Y-%m-%d', '%Y-%m-%dT%H:%M:%S.%f', or
\* something neither format accepts.
DateOnly(d) == [kind |-> "date", day |-> d, tod |-> 0]
DateTime(d, t) == [kind |-> "datetime", day |-> d, tod |-> t]
BadDate == [kind |-> "bad", day |-> 0, tod |-> 0]
DateStrs == {DateOnly(d) : d \in Days} \cup {DateTime(d, TodNoon) : d \in Days}
              \cup {BadDate}

\* Offsets inside a day at which the upstream catalogue may hold an event.
EventOffs == {0, DayLen - 1}
EventTimes == {d * DayLen + o : d \in Days, o \in EventOffs}
Feature(i, t, a) == [id |-> i, time |-> t, attr |-> a]
Universe == {Feature(t, t, 0) : t \in EventTimes}
TzOffsets == {0, TzShift}

VARIABLES
  store,          \* collection: a bag of documents
  held,           \* the events the upstream feed holds
  failDays,       \* day strings for which the feed request fails
  tzOffset,       \* local time minus UTC of the process
  pc,             \* position of each caller
  args,           \* (start_date, end_date) of the caller's call in flight,
                  \* or of its last call if no fault cut that short
  current_date,   \* loop variable of check_and_fetch_data
  end_datetime,
  data_count,
  fetched_data,   \* the batch store_data iterates over
  idx,            \* position of store_data's for loop
  matched,        \* whether update_one's filter matched a document
  inCheck,        \* store_data was called from check_and_fetch_data
  outcome,        \* how the caller's last call ended
  log,            \* bucket visits of the caller's current or last call
  faulted,        \* a store fault hit the caller's current or last call
  repeat,         \* the call repeats the caller's previous, fault-free call
  firstStored     \* per identifier, the first document ever inserted

vars == <<store, held, failDays, tzOffset, pc, args, current_date,
          end_datetime, data_count, fetched_data, idx, matched, inCheck,
          outcome, log, faulted, repeat, firstStored>>

envVars == <<held, failDays, tzOffset>>

\* ------------------------------------------------------------ conversions
\* parse_date: the naive local datetime, or ValueError when both formats
\* fail.
parse_date(s) ==
  IF s.kind = "datetime" THEN Some(s.day * DayLen + s.tod)
  ELSE IF s.kind = "date" THEN Some(s.day * DayLen)
  ELSE ValueError

\* datetime.strftime('%Y-%m-%d'): the calendar day, time of day dropped.
strftime(dt) == dt \div DayLen

\* datetime.timestamp() * 1000 of a naive datetime: local time to epoch.
timestamp(dt) == dt - tzOffset

\* ------------------------------------------------------------------ store
Docs(s) == BagToSet(s)

\* collection.count_documents({'properties.time': {'$gte': lo, '$lt': hi}})
CountInRange(s, lo, hi) ==
  BagCardinality([d \in {x \in Docs(s) : x.time >= lo /\ x.time < hi}
                    |-> CopiesIn(d, s)])

\* collection.find({'properties.time': {'$gte': lo, '$lte': hi}})
find(s, lo, hi) == {d \in Docs(s) : d.time >= lo /\ d.time <= hi}

\* A plain insert: the filter of update_one never matches.
Matches_InsertAlways(s, i) == FALSE

\* Does the filter {'id': i} match a document?
Matches(s, i) == \E d \in Docs(s) : d.id = i

\* The collection is emptied before the document goes in.
InsertDoc_Overwrite(s, f) == SetToBag({f})

\* The insert of an upsert: one more document in the collection.
InsertDoc(s, f) == s (+) SetToBag({f})

\* upsert=False: nothing is inserted when nothing matched.
update_one_NoUpsert(s, f, m) == s

\* '$set' in place of '$setOnInsert': a matched document takes the fields
\* of the feature.
update_one_Set(s, f, m) ==
  IF m THEN LET keep == {d \in Docs(s) : d.id # f.id}
                n == BagCardinality(s) -
                       BagCardinality([d \in keep |-> CopiesIn(d, s)])
            IN [d \in keep \cup {f} |-> IF d = f THEN n ELSE CopiesIn(d, s)]
       ELSE InsertDoc(s, f)

\* update_one({'id': id}, {'$setOnInsert': feature}, upsert=True) once its
\* filter has matched (m) or not: a matched document is left as it is.
update_one(s, f, m) == IF m THEN s ELSE InsertDoc(s, f)

\* ------------------------------------------------------------------- feed
RECURSIVE SeqOfSet(_)
SeqOfSet(S) ==
  IF S = {} THEN <<>>
  ELSE LET m == CHOOSE x \in S : \A y \in S : x.time <= y.time
       IN <<m>> \o SeqOfSet(S \ {m})

\* The upstream reads the day strings of starttime and endtime as UTC
\* midnights.
FeedLo(s) == s * DayLen
FeedHi(e) == e * DayLen

\* The events the upstream holds for starttime=s&endtime=e.
FeedSet(s, e) == {f \in held : f.time >= FeedLo(s) /\ f.time < FeedHi(e)}

\* fetch_earthquake_data returns the features of the answer, or None when
\* the request fails.
fetch_earthquake_data(s, e) ==
  IF s \in failDays THEN None ELSE Some(SeqOfSet(FeedSet(s, e)))

\* `if fetched_data:` is false for None and for an empty list.
Truthy(x) == x.ok /\ x.val # <<>>

\* ------------------------------------------------------------------- init
InitProc ==
  /\ pc = [p \in Procs |-> "idle"]
  /\ args = [p \in Procs |-> <<BadDate, BadDate>>]
  /\ current_date = [p \in Procs |-> NoDate]
  /\ end_datetime = [p \in Procs |-> NoDate]
  /\ data_count = [p \in Procs |-> 0]
  /\ fetched_data = [p \in Procs |-> <<>>]
  /\ idx = [p \in Procs |-> 0]
  /\ matched = [p \in Procs |-> FALSE]
  /\ inCheck = [p \in Procs |-> FALSE]
  /\ outcome = [p \in Procs |-> "none"]
  /\ log = [p \in Procs |-> <<>>]
  /\ faulted = [p \in Procs |-> FALSE]
  /\ repeat = [p \in Procs |-> FALSE]
  /\ firstStored = [i \in {} |-> 0]

Init ==
  /\ store = EmptyBag
  /\ held \in {h \in SUBSET Universe : Cardinality(h) <= MaxHeld}
  /\ failDays \in {F \in SUBSET Days : Cardinality(F) <= 1}
  /\ tzOffset \in TzOffsets
  /\ InitProc

\* ---------------------------------------------------------------- helpers
\* The bucket is fetched whatever the count says.
NeedsFetch_Always(n) == TRUE

\* The end day is left out of the range.
LoopTest_Exclusive(cur, end) == cur < end

\* The loop runs one day past the end.
LoopTest_DayLate(cur, end) == cur <= end + DayLen

\* Line 64: `while current_date <= end_datetime`.
LoopTest(cur, end) == cur <= end

\* Line 72: `if data_count == 0`.
NeedsFetch(n) == n = 0

\* The window of the store count for the bucket that starts at datetime cur.
WinLo(cur) == timestamp(cur)
WinHi(cur) == timestamp(cur + DayLen)

\* The caller's call ends with outcome out; its locals are gone.
Finish(p, out, flt) ==
  /\ pc' = [pc EXCEPT ![p] = "done"]
  /\ outcome' = [outcome EXCEPT ![p] = out]
  /\ faulted' = [faulted EXCEPT ![p] = flt]
  /\ current_date' = [current_date EXCEPT ![p] = NoDate]
  /\ end_datetime' = [end_datetime EXCEPT ![p] = NoDate]
  /\ data_count' = [data_count EXCEPT ![p] = 0]
  /\ fetched_data' = [fetched_data EXCEPT ![p] = <<>>]
  /\ idx' = [idx EXCEPT ![p] = 0]
  /\ matched' = [matched EXCEPT ![p] = FALSE]

Visit(p, feed, wrote) ==
  [cur |-> current_date[p], cnt |-> data_count[p], feed |-> feed,
   wrote |-> wrote]

\* A `break` in place of line 76: the call ends after its first bucket.
Advance_Break(p, entry, flt) ==
  /\ log' = [log EXCEPT ![p] = Append(@, entry)]
  /\ Finish(p, "completed", flt)

\* Lines 76-78: current_date = next_date, then the loop test; the call
\* completes when the test fails.
Advance(p, entry, flt) ==
  /\ log' = [log EXCEPT ![p] = Append(@, entry)]
  /\ IF LoopTest(current_date[p] + DayLen, end_datetime[p])
       THEN /\ current_date' = [current_date EXCEPT ![p] = @ + DayLen]
            /\ pc' = [pc EXCEPT ![p] = "count"]
            /\ faulted' = [faulted EXCEPT ![p] = flt]
            /\ data_count' = [data_count EXCEPT ![p] = 0]
            /\ fetched_data' = [fetched_data EXCEPT ![p] = <<>>]
            /\ idx' = [idx EXCEPT ![p] = 0]
            /\ matched' = [matched EXCEPT ![p] = FALSE]
            /\ UNCHANGED <<outcome, end_datetime>>
       ELSE Finish(p, "completed", flt)

\* store_data, lines 42-55, ends: back in the loop of check_and_fetch_data,
\* or back at a direct caller.
Return(p, kind, wrote, flt) ==
  IF inCheck[p]
    THEN Advance(p, Visit(p, kind, wrote), flt)
    ELSE /\ Finish(p, "completed", flt)
         /\ UNCHANGED log

\* ---------------------------------------------------------------- actions
\* check_and_fetch_data(start_date, end_date), lines 58-64 and 80-81.
Call(p, s, e) ==
  /\ pc[p] = "idle"
  /\ args' = [args EXCEPT ![p] = <<s, e>>]
  /\ repeat' = [repeat EXCEPT ![p] = args[p] = <<s, e>>]
  /\ inCheck' = [inCheck EXCEPT ![p] = TRUE]
  /\ faulted' = [faulted EXCEPT ![p] = FALSE]
  /\ IF ~parse_date(s).ok \/ ~parse_date(e).ok
       THEN /\ pc' = [pc EXCEPT ![p] = "done"]
            /\ outcome' = [outcome EXCEPT ![p] = "error"]
            /\ UNCHANGED <<current_date, end_datetime>>
       ELSE IF LoopTest(parse_date(s).val, parse_date(e).val)
         THEN /\ current_date' = [current_date EXCEPT ![p] = parse_date(s).val]
              /\ end_datetime' = [end_datetime EXCEPT ![p] = parse_date(e).val]
              /\ pc' = [pc EXCEPT ![p] = "count"]
              /\ outcome' = [outcome EXCEPT ![p] = "running"]
         ELSE /\ pc' = [pc EXCEPT ![p] = "done"]
              /\ outcome' = [outcome EXCEPT ![p] = "completed"]
              /\ UNCHANGED <<current_date, end_datetime>>
  /\ UNCHANGED <<store, envVars, data_count, fetched_data, idx, matched,
                 firstStored, log>>

\* The call has returned to its caller, which goes on; what is left of the
\* call is its arguments, unless a fault cut it short.
Exit(p) ==
  /\ pc[p] = "done"
  /\ pc' = [pc EXCEPT ![p] = "idle"]
  /\ outcome' = [outcome EXCEPT ![p] = "none"]
  /\ log' = [log EXCEPT ![p] = <<>>]
  /\ repeat' = [repeat EXCEPT ![p] = FALSE]
  /\ args' = [args EXCEPT ![p] = IF faulted[p] \/ ~inCheck[p]
                                   THEN <<BadDate, BadDate>> ELSE @]
  /\ faulted' = [faulted EXCEPT ![p] = FALSE]
  /\ inCheck' = [inCheck EXCEPT ![p] = FALSE]
  /\ UNCHANGED <<store, envVars, current_date, end_datetime, data_count,
                 fetched_data, idx, matched, firstStored>>

\* Lines 65-72: the count over [current_date, next_date) and the test.
Count(p) ==
  /\ pc[p] = "count"
  /\ LET n == CountInRange(store, WinLo(current_date[p]),
                           WinHi(current_date[p]))
     IN IF NeedsFetch(n)
          THEN /\ data_count' = [data_count EXCEPT ![p] = n]
               /\ pc' = [pc EXCEPT ![p] = "fetch"]
               /\ UNCHANGED <<log, current_date, end_datetime, outcome,
                              faulted, fetched_data, idx, matched>>
          ELSE Advance(p, [cur |-> current_date[p], cnt |-> n,
                           feed |-> "skip", wrote |-> 0], faulted[p])
  /\ UNCHANGED <<store, envVars, args, inCheck, repeat, firstStored>>

\* count_documents raises: the handler of line 80 ends the call.
CountRaise(p) ==
  /\ pc[p] = "count"
  /\ Finish(p, "error", TRUE)
  /\ UNCHANGED <<store, envVars, args, inCheck, log, repeat, firstStored>>

\* Lines 73-75: the feed request for the bucket and the test of its result.
Fetch(p) ==
  /\ pc[p] = "fetch"
  /\ LET r == fetch_earthquake_data(strftime(current_date[p]),
                                    strftime(current_date[p] + DayLen))
     IN IF Truthy(r)
          THEN /\ fetched_data' = [fetched_data EXCEPT ![p] = r.val]
               /\ idx' = [idx EXCEPT ![p] = 1]
               /\ pc' = [pc EXCEPT ![p] = "upsert"]
               /\ UNCHANGED <<log, current_date, end_datetime, outcome,
                              faulted, data_count, matched>>
          ELSE Advance(p, Visit(p, IF r.ok THEN "empty" ELSE "fail", 0),
                       faulted[p])
  /\ UNCHANGED <<store, envVars, args, inCheck, repeat, firstStored>>

\* update_one, lines 46-50, first half: the filter {'id': feature['id']}.
UpsertFind(p) ==
  /\ pc[p] = "upsert"
  /\ matched' = [matched EXCEPT ![p] = Matches(store, fetched_data[p][idx[p]].id)]
  /\ pc' = [pc EXCEPT ![p] = "write"]
  /\ UNCHANGED <<store, envVars, args, current_date, end_datetime, data_count,
                 fetched_data, idx, inCheck, outcome, log, faulted, repeat,
                 firstStored>>

\* update_one, second half: the write, then the next feature of the loop.
UpsertWrite(p) ==
  /\ pc[p] = "write"
  /\ LET f == fetched_data[p][idx[p]]
     IN /\ store' = update_one(store, f, matched[p])
        /\ firstStored' = IF matched[p] \/ f.id \in DOMAIN firstStored
                            THEN firstStored
                            ELSE [i \in DOMAIN firstStored \cup {f.id} |->
                                    IF i = f.id THEN f ELSE firstStored[i]]
  /\ IF idx[p] < Len(fetched_data[p])
       THEN /\ idx' = [idx EXCEPT ![p] = @ + 1]
            /\ pc' = [pc EXCEPT ![p] = "upsert"]
            /\ UNCHANGED <<log, current_date, end_datetime, outcome, faulted,
                           data_count, fetched_data, matched>>
       ELSE Return(p, "ok", idx[p], faulted[p])
  /\ UNCHANGED <<envVars, args, inCheck, repeat>>

\* update_one raises: the handler of line 54 ends store_data.
UpsertRaise(p) ==
  /\ pc[p] = "upsert"
  /\ Return(p, "storefail", idx[p] - 1, TRUE)
  /\ UNCHANGED <<store, envVars, args, inCheck, repeat, firstStored>>

\* The caller gives up on a call in flight between two buckets.
Abandon(p) ==
  /\ pc[p] = "count"
  /\ Finish(p, "abandoned", TRUE)
  /\ UNCHANGED <<store, envVars, args, inCheck, log, repeat, firstStored>>

\* store_data(data), lines 42-45 and 52-53, called on its own.
StoreData(p, data) ==
  /\ pc[p] = "idle"
  /\ inCheck' = [inCheck EXCEPT ![p] = FALSE]
  /\ faulted' = [faulted EXCEPT ![p] = FALSE]
  /\ repeat' = [repeat EXCEPT ![p] = FALSE]
  /\ fetched_data' = [fetched_data EXCEPT ![p] = data]
  /\ IF data # <<>>
       THEN /\ pc' = [pc EXCEPT ![p] = "upsert"]
            /\ idx' = [idx EXCEPT ![p] = 1]
            /\ outcome' = [outcome EXCEPT ![p] = "running"]
       ELSE /\ pc' = [pc EXCEPT ![p] = "done"]
            /\ idx' = [idx EXCEPT ![p] = 0]
            /\ outcome' = [outcome EXCEPT ![p] = "completed"]
  /\ UNCHANGED <<store, envVars, args, current_date, end_datetime, data_count,
                 matched, log, firstStored>>

\* ---------------------------------------------------------- specification
\* The argument pairs a caller passes.
CallArgs ==
  {<<s, DateOnly(e)>> : s \in DateStrs \ {BadDate}, e \in Days}
    \cup {<<BadDate, DateOnly(0)>>, <<DateOnly(0), BadDate>>}

Step(p) ==
  \/ \E a \in CallArgs : Call(p, a[1], a[2])
  \/ Count(p)
  \/ CountRaise(p)
  \/ Fetch(p)
  \/ UpsertFind(p)
  \/ UpsertWrite(p)
  \/ UpsertRaise(p)
  \/ Abandon(p)
  \/ Exit(p)

Next == Step(1)

Spec == Init /\ [][Next]_vars

\* store_data driven directly with batches of features, two of which may
\* carry the same identifier with different attributes.
BatchIds == 1..2
BatchFeatures == {Feature(i, 0, a) : i \in BatchIds, a \in 0..1}
RECURSIVE SeqsUpTo(_, _)
SeqsUpTo(S, n) ==
  IF n = 0 THEN {<<>>}
  ELSE LET shorter == SeqsUpTo(S, n - 1)
       IN shorter \cup {Append(q, x) : q \in shorter, x \in S}
Batches == SeqsUpTo(BatchFeatures, MaxBatch)

InitStore ==
  /\ store = EmptyBag
  /\ held = {}
  /\ failDays = {}
  /\ tzOffset = 0
  /\ InitProc

NextStore ==
  \/ \E data \in Batches : StoreData(1, data)
  \/ UpsertFind(1)
  \/ UpsertWrite(1)
  \/ UpsertRaise(1)
  \/ Exit(1)

SpecStore == InitStore /\ [][NextStore]_vars

\* The example of the __main__ block: check_and_fetch_data('2024-04-01',
\* '2024-04-02') against a feed that holds three events, A, B and C, for the
\* first of the two days and none for any other day.
ExampleArgs == <<DateOnly(0), DateOnly(1)>>
ExampleFeed == {Feature(101, 0, 0), Feature(102, 1, 0), Feature(103, 1, 0)}

InitExample ==
  /\ store = EmptyBag
  /\ held = ExampleFeed
  /\ failDays = {}
  /\ tzOffset \in TzOffsets
  /\ InitProc

NextExample ==
  \/ \E a \in CallArgs : Call(1, a[1], a[2])
  \/ Count(1)
  \/ Fetch(1)
  \/ UpsertFind(1)
  \/ UpsertWrite(1)
  \/ Exit(1)

SpecExample == InitExample /\ [][NextExample]_vars

\* Calls against a store that works, whatever the feed holds and whichever
\* of its requests fail.  The thread of a call runs on: every step of the
\* call that is enabled is taken in the end, the answer of the feed included.
Progress(p) ==
  Count(p) \/ Fetch(p) \/ UpsertFind(p) \/ UpsertWrite(p)

NextFeedOnly ==
  \/ \E a \in CallArgs : Call(1, a[1], a[2])
  \/ Progress(1)
  \/ Exit(1)

\* Which buckets a call visits does not depend on the offset of local time.
InitFair == Init /\ tzOffset = 0

SpecFair == InitFair /\ [][NextFeedOnly]_vars /\ WF_vars(Progress(1))

\* Calls whose start and end name the same calendar day, with or without a
\* time of day; get_data's call is one of them.
SameDayArgs ==
  {<<s, e>> : s \in DateStrs \ {BadDate}, e \in DateStrs \ {BadDate}}
    \cap {a \in DateStrs \X DateStrs : a[1].day = a[2].day}

NextSameDay ==
  \/ \E a \in SameDayArgs : Call(1, a[1], a[2])
  \/ Count(1)
  \/ CountRaise(1)
  \/ Fetch(1)
  \/ UpsertFind(1)
  \/ UpsertWrite(1)
  \/ UpsertRaise(1)
  \/ Exit(1)

SpecSameDay == Init /\ [][NextSameDay]_vars

\* The dashboard: a date change fires update_map and update_data_table,
\* and each calls get_data(selected_date), which starts with
\* check_and_fetch_data(selected_date, selected_date).
GetData(p, d) ==
  /\ \A q \in Procs \ {p} : pc[q] = "idle" \/ args[q] = <<DateOnly(d), DateOnly(d)>>
  /\ Call(p, DateOnly(d), DateOnly(d))

\* get_data, lines 35-37 and 57-61 of app.py: the window of the query, from
\* 00:00:00 to 23:59:59 of the selected day, both ends included.
ReadLo(d) == timestamp(d * DayLen)
ReadHi(d) == timestamp(d * DayLen + DayLen - SecLen)

\* What get_data(selected_date) returns once its backfill has returned.
get_data(d) == find(store, ReadLo(d), ReadHi(d))

NextConc ==
  \E p \in Procs :
    \/ \E d \in Days : GetData(p, d)
    \/ Count(p)
    \/ Fetch(p)
    \/ UpsertFind(p)
    \/ UpsertWrite(p)
    \/ Exit(p)

SpecConc == Init /\ [][NextConc]_vars

\* One call after another: the second callback's get_data call runs to its
\* return first, and what it did stays on record while the first callback
\* makes call after call.
Earlier ==
  \/ \E d \in Days : pc[1] = "idle" /\ Call(2, DateOnly(d), DateOnly(d))
  \/ Progress(2)

Later ==
  /\ pc[2] = "done"
  /\ \/ \E a \in CallArgs : Call(1, a[1], a[2])
     \/ Progress(1)
     \/ Exit(1)

NextSeq == Earlier \/ Later

SpecSeq == Init /\ [][NextSeq]_vars

\* ------------------------------------------------------------------ claims
\* A call of check_and_fetch_data has returned after its loop ran to the end
\* and no store operation raised.
CleanDone(p) ==
  pc[p] = "done" /\ inCheck[p] /\ outcome[p] = "completed" /\ ~faulted[p]

\* The visits of the caller's call.
Visits(p) == {log[p][k] : k \in 1..Len(log[p])}

\* The feed requests of the caller's call.
FeedCalls(p) == {k \in 1..Len(log[p]) : log[p][k].feed # "skip"}

\* The datetimes at which the buckets of the range (a[1], a[2]) start.
Buckets(a) ==
  IF ~parse_date(a[1]).ok \/ ~parse_date(a[2]).ok THEN {}
  ELSE {parse_date(a[1]).val + k * DayLen : k \in 0..(MaxDay + 1)}
         \cap (parse_date(a[1]).val)..(parse_date(a[2]).val)

\* The arguments break the caller's contract.
Malformed(a) ==
  \/ ~parse_date(a[1]).ok
  \/ ~parse_date(a[2]).ok
  \/ parse_date(a[2]).val < parse_date(a[1]).val

\* The store holds a document for every feature the feed holds for the day
\* of the bucket that starts at cur.
HoldsFeedOf(cur) ==
  \A f \in FeedSet(strftime(cur), strftime(cur + DayLen)) : Matches(store, f.id)

\* C1: a call that repeats the arguments of the caller's previous call,
\* which ended without a store fault, never changes the store: the store
\* after the second call is the store after the first.
C1_Idempotent == [][repeat[1] => store' = store]_vars

\* A repeated call upserts a feature it has fetched again.
C1_Witness == repeat[1] /\ pc[1] = "write" /\ store # EmptyBag

\* C2: the feed is asked for a bucket only when the store count over the
\* bucket's window is zero at the moment the bucket is visited.
C2_GapOnlyFetch ==
  /\ pc[1] = "fetch" =>
       CountInRange(store, WinLo(current_date[1]), WinHi(current_date[1])) = 0
  /\ \A k \in 1..Len(log[1]) : log[1][k].feed # "skip" => log[1][k].cnt = 0

\* A repeated call has skipped a bucket that an earlier call populated.
C2_Witness ==
  /\ repeat[1] /\ pc[1] = "count"
  /\ \E k \in 1..Len(log[1]) : log[1][k].feed = "skip" /\ log[1][k].cnt > 0

\* C3: when the feed fails for a bucket, every other bucket counted empty
\* is fetched and stored, and after the call the count over the failing
\* bucket is still zero.
C3_PartialFailureIsolation ==
  CleanDone(1) =>
    \A v \in Visits(1) :
      /\ v.cnt = 0 /\ v.feed # "fail" => v.feed \in {"ok", "empty"} /\ HoldsFeedOf(v.cur)
      /\ v.feed = "fail" => CountInRange(store, WinLo(v.cur), WinHi(v.cur)) = 0

\* C3 for calls whose count window is the feed's day: start has no time of
\* day and local time is UTC.
C3_Aligned ==
  (tzOffset = 0 /\ args[1][1].kind = "date") => C3_PartialFailureIsolation

\* C4: the store holds at most one document per identifier, and it is the
\* first document ever inserted with that identifier.
C4_FirstWriterWins ==
  \A d \in Docs(store) :
    /\ CopiesIn(d, store) = 1
    /\ \A e \in Docs(store) : e.id = d.id => e = d
    /\ d.id \in DOMAIN firstStored /\ firstStored[d.id] = d

\* store_data has gone past a feature whose identifier was already stored
\* with other attributes.
C4_Witness ==
  /\ pc[1] = "upsert" /\ idx[1] = 2 /\ ~inCheck[1]
  /\ LET f == fetched_data[1][1]
     IN /\ f.id \in DOMAIN firstStored
        /\ firstStored[f.id] # f
        /\ firstStored[f.id] \in Docs(store)

\* C5: with two concurrent callers, no two documents of the store carry the
\* same identifier.
C5_UniqueIdsConcurrent ==
  \A d \in Docs(store) :
    /\ CopiesIn(d, store) = 1
    /\ \A e \in Docs(store) : e.id = d.id => e = d

\* C6 as stated: after the example call the count over the first day is 3;
\* a second identical call leaves it at 3 and makes no feed request.
C6_ExampleScenario ==
  (pc[1] = "done" /\ args[1] = ExampleArgs /\ outcome[1] = "completed") =>
    /\ CountInRange(store, WinLo(0), WinHi(0)) = 3
    /\ repeat[1] => FeedCalls(1) = {}

\* C6 amended: after the example call the count over the first day is 3; a
\* second identical call leaves it at 3, skips the first day and makes
\* exactly one feed request, for the second day, which is still empty.
C6_ExampleAmended ==
  (pc[1] = "done" /\ args[1] = ExampleArgs /\ outcome[1] = "completed") =>
    /\ CountInRange(store, WinLo(0), WinHi(0)) = 3
    /\ repeat[1] =>
         log[1] = <<[cur |-> 0, cnt |-> 3, feed |-> "skip", wrote |-> 0],
                    [cur |-> DayLen, cnt |-> 0, feed |-> "empty", wrote |-> 0]>>

\* The second of two identical example calls has returned.
C6_Witness ==
  /\ pc[1] = "done" /\ args[1] = ExampleArgs /\ repeat[1]
  /\ BagCardinality(store) = 3

\* C7: every bucket counted in the store starts at a midnight, and its
\* window is the interval the feed is asked for.
C7_DayBoundaryTruncation ==
  pc[1] \in {"count", "fetch"} =>
    /\ current_date[1] % DayLen = 0
    /\ WinLo(current_date[1]) = FeedLo(strftime(current_date[1]))
    /\ WinHi(current_date[1]) = FeedHi(strftime(current_date[1] + DayLen))

\* C8: a call with an unparsable date or with end before start ends in an
\* error outcome and has counted, fetched and written nothing.
C8_MalformedFailFast ==
  (pc[1] = "done" /\ inCheck[1] /\ Malformed(args[1])) =>
    outcome[1] = "error" /\ log[1] = <<>>

C10_StrictlyAdditive ==
  [][\A d \in Docs(store) :
       d \in Docs(store') /\ CopiesIn(d, store') >= CopiesIn(d, store)]_vars

\* A call has returned after a store write failed part-way through a
\* bucket, the documents written before it still in the store.
C10_Witness ==
  /\ pc[1] = "done" /\ faulted[1] /\ store # EmptyBag
  /\ \E v \in Visits(1) : v.feed = "storefail" /\ v.wrote >= 1

\* The log of the caller's call names every bucket of the range once, in
\* ascending order, each starting where the one before it ends.
VisitsInOrder(p) ==
  /\ Len(log[p]) = Cardinality(Buckets(args[p]))
  /\ \A k \in 1..Len(log[p]) :
       log[p][k].cur = parse_date(args[p][1]).val + (k - 1) * DayLen

\* C11: a call with start <= end comes to its end whatever the feed answers;
\* it returns normally, completed, with every bucket of the range visited
\* once, in ascending order, and so with at most one feed request per bucket.
C11_BestEffortCompletion ==
  /\ [](pc[1] = "done" /\ inCheck[1] /\ ~Malformed(args[1]) =>
         outcome[1] = "completed" /\ VisitsInOrder(1))
  /\ (pc[1] \in {"count", "fetch", "upsert", "write"}) ~> (pc[1] = "done")

\* A call over three buckets has completed with one feed request failed,
\* one answered with records and one bucket skipped or empty.
C11_Witness ==
  /\ pc[1] = "done" /\ outcome[1] = "completed" /\ ~faulted[1]
  /\ Len(log[1]) = 3
  /\ \E v \in Visits(1) : v.feed = "fail"
  /\ \E v \in Visits(1) : v.feed = "ok"

\* C12: in a call whose start and end fall on the same calendar day, the
\* store count and the feed request are each made at most once: none is
\* about to be made after a bucket has been visited, and no second bucket
\* is visited.
C12_SingleDay ==
  (inCheck[1] /\ args[1][1].day = args[1][2].day) =>
    /\ Len(log[1]) <= 1
    /\ pc[1] \in {"count", "fetch"} => log[1] = <<>>

\* A call with a date-only start and an end later on the same day has
\* returned after its one bucket was counted, fetched and stored.
C12_Witness ==
  /\ pc[1] = "done" /\ outcome[1] = "completed"
  /\ args[1][1].kind = "date" /\ args[1][2].kind = "datetime"
  /\ args[1][1].day = args[1][2].day
  /\ Len(log[1]) = 1 /\ log[1][1].feed = "ok"

\* The features of day d that the feed holds and the store does not.
Missing(d) == {f \in FeedSet(d, d + 1) : ~Matches(store, f.id)}

\* The days left with a partial ingest: store_data has ended, and the store
\* holds some of the features the feed holds for the day but not all.
GapDays ==
  {d \in Days : /\ pc[1] \notin {"upsert", "write"}
                /\ Missing(d) # {}
                /\ Missing(d) # FeedSet(d, d + 1)}

EmptyAnswered == {strftime(v.cur) : v \in {w \in Visits(2) : w.feed = "empty"}}

\* C14: a bucket the feed answers with no records gets nothing written and
\* is visited once in its call, and every later call that visits a bucket
\* of that day asks the feed for it again.
C14_EmptyDayRefetched ==
  /\ \A p \in Procs : \A k \in 1..Len(log[p]) :
       log[p][k].feed = "empty" =>
         /\ log[p][k].wrote = 0
         /\ \A j \in 1..Len(log[p]) : log[p][j].cur = log[p][k].cur => j = k
  /\ pc[2] = "done" =>
       \A k \in 1..Len(log[1]) :
         strftime(log[1][k].cur) \in EmptyAnswered => log[1][k].feed # "skip"

\* The step ends the visit of a bucket whose feed request or store write
\* failed.
FailedVisit(p) ==
  /\ Len(log'[p]) = Len(log[p]) + 1
  /\ log'[p][Len(log'[p])].feed \in {"fail", "storefail"}

\* C15: a store count that fails ends the call at once: the handler returns
\* to the caller with no further bucket visited and nothing written, and
\* nothing of the call runs after its return.  A feed request or a store
\* write that fails ends only its bucket: the loop goes on to count the
\* next bucket of the range, or completes after the last.
C15_CountFailureStopsRange ==
  [][/\ (outcome[1] = "running" /\ outcome'[1] = "error") =>
          pc[1] = "count" /\ pc'[1] = "done" /\ log' = log /\ store' = store
     /\ pc[1] = "done" => pc'[1] = "idle" /\ store' = store
     /\ (inCheck[1] /\ FailedVisit(1)) =>
          IF Len(log'[1]) < Cardinality(Buckets(args[1]))
            THEN /\ pc'[1] = "count"
                 /\ current_date'[1] = current_date[1] + DayLen
                 /\ outcome'[1] = "running"
            ELSE pc'[1] = "done" /\ outcome'[1] = "completed"]_vars

\* The count of the second of three buckets has failed after the feed
\* request of the first had failed: the call has returned, the third bucket
\* unvisited.
C15_Witness ==
  /\ pc[1] = "done" /\ outcome[1] = "error"
  /\ Cardinality(Buckets(args[1])) = 3
  /\ Len(log[1]) = 1 /\ log[1][1].feed = "fail"

\* C16: once the backfill of get_data(selected_date) has returned, the
\* window get_data queries holds every instant of the bucket the backfill
\* counted for the day, and get_data returns every stored record of the
\* bucket.
C16_ReadWindowCoversBucket ==
  \A p \in Procs : \A d \in Days :
    (pc[p] = "done" /\ args[p] = <<DateOnly(d), DateOnly(d)>>) =>
      /\ \A t \in WinLo(d * DayLen)..(WinHi(d * DayLen) - 1) :
           ReadLo(d) <= t /\ t <= ReadHi(d)
      /\ \A r \in Docs(store) :
           (r.time >= WinLo(d * DayLen) /\ r.time < WinHi(d * DayLen)) =>
             r \in get_data(d)

====
